---- MODULE Spec2Model ----
(***************************************************************************)
(* State-machine model of src/main.py: the request handlers signup, login, *)
(* create_order, get_user_orders and update_user_address running over one  *)
(* shared MySQL store (tables users and orders created by init_db).        *)
(*                                                                         *)
(* Every handler opens its own connection.  mysql.connector connections    *)
(* run with autocommit off, so the statements of a handler are buffered in *)
(* the connection's transaction (tx) until conn.commit(), and are dropped  *)
(* when the connection is closed without a commit.  Each statement is one  *)
(* atomic step; the steps of different requests interleave freely.         *)
(***************************************************************************)
EXTENDS Integers, Sequences, FiniteSets, TLC

\* ---------------------------------------------------------------- bounds
MaxClock == 1        \* the wall clock runs over the seconds 0..MaxClock
MaxUsers == 2        \* AUTO_INCREMENT values the users table hands out: 1..MaxUsers

Procs == {1, 2}      \* request slots (workers) that can run a handler at the same time

\* ---------------------------------------------------------------- values
NULL == "NULL"                       \* SQL NULL in a text column
None == <<>>                         \* Python None for Optional[int]; an int n is <<n>>
Delivered == "Delivered"             \* the status literal of create_order

Emails == {"a@x", "b@x"}
Passwords == {"p", "q"}
UserName == "n"
UserIdInputs == {1, 2}               \* user ids a client may send

\* Python values that travel through json.dumps / json.loads: a dict (named
\* by its content), a list of dicts, or None.
PyDict(d) == [t |-> "dict", elems |-> <<d>>]
PyList(s) == [t |-> "list", elems |-> s]
PyNone == [t |-> "none", elems |-> <<>>]

DictNames == {"A1", "A2", "i1", "i2"}
PyValues ==
    {PyNone} \cup {PyDict(d) : d \in DictNames}
    \cup {PyList(s) : s \in {<<>>} \cup {<<d>> : d \in DictNames}
                              \cup {<<d, e>> : d, e \in DictNames}}

\* Request bodies of POST /api/orders (OrderCreate): items, total, address.
\* total is a float, modelled in thousandths (3000 is 3.000, 125 is 0.125).
OrderBodies ==
    { [items |-> PyList(<<"i1">>), total |-> 3000, address |-> PyDict("A1")],
      [items |-> PyList(<<"i1", "i2">>), total |-> 125, address |-> PyDict("A2")] }

\* Request bodies of POST /api/user/address (AddressUpdate.addresses).
AddressLists == {PyList(<<>>), PyList(<<"A2">>)}

\* ------------------------------------------------------------ conversions
RECURSIVE JoinDicts(_)
JoinDicts(s) ==
    IF s = <<>> THEN ""
    ELSE IF Len(s) = 1 THEN "{" \o s[1] \o "}"
    ELSE "{" \o s[1] \o "}," \o JoinDicts(Tail(s))

json_dumps(v) ==
    IF v.t = "none" THEN "null"
    ELSE IF v.t = "dict" THEN "{" \o v.elems[1] \o "}"
    ELSE "[" \o JoinDicts(v.elems) \o "]"

json_loads(s) == CHOOSE v \in PyValues : json_dumps(v) = s

\* `x if row['address'] else None`: None and the empty string are falsy.
TextTruthy(s) == s # NULL /\ s # ""

\* `if order.user_id`: None and 0 are falsy.
IdTruthy(uid) == uid # None /\ uid[1] # 0

\* A float bound to a DECIMAL(10, 2) column: rounded half away from zero to
\* hundredths.  The argument is in thousandths, the result in hundredths.
ToDecimal2(t) == IF t >= 0 THEN (t + 5) \div 10 ELSE 0 - ((5 - t) \div 10)

\* float(row['total']): a DECIMAL(10, 2) in hundredths back to thousandths.
DecimalToFloat(h) == h * 10

\* f"ORD{datetime.now().strftime('%Y%m%d%H%M%S')}": one id per clock second.
OrderIdAt(second) == <<"ORD", second>>

\* ------------------------------------------------------------------ state
VARIABLES
    users,      \* committed rows of table users
    orders,     \* committed rows of table orders
    autoinc,    \* next AUTO_INCREMENT value of users.id
    clock,      \* current second (datetime.now() and CURRENT_TIMESTAMP)
    req,        \* per request slot: the request being handled and its position
    resp,       \* the request that finished in the last step, with its response
    tx,         \* per request slot: uncommitted writes of its connection
    placed,     \* history: orders as submitted, recorded when their commit succeeds
    lastAddr    \* history: per user id, the address value of the last committed write

vars == <<users, orders, autoinc, clock, req, resp, tx, placed, lastAddr>>

EmptyTx == [user |-> {}, order |-> {}, addr |-> {}]

\* A request slot with no request: every field at its default.
Blank ==
    [op |-> "none", pc |-> "idle", conn |-> FALSE,
     email |-> "", password |-> "", user_id |-> None,
     items |-> PyNone, total |-> 0, address |-> PyNone, order_id |-> OrderIdAt(0),
     status |-> 0, err |-> "none", errno |-> "none", mail |-> "none",
     ruser |-> None, rorder |-> OrderIdAt(0), raddr |-> PyNone, rorders |-> <<>>]

\* The requests a client can send, as the handler sees them on entry.
SignupReq(e, pw) == [Blank EXCEPT !.op = "signup", !.pc = "insert", !.email = e, !.password = pw]
LoginReq(e, pw) == [Blank EXCEPT !.op = "login", !.pc = "select", !.email = e, !.password = pw]
OrderReq(uid, body, now) ==
    [Blank EXCEPT !.op = "create_order", !.pc = "insert", !.user_id = uid,
                  !.items = body.items, !.total = body.total, !.address = body.address,
                  !.order_id = OrderIdAt(now)]
OrdersReq(u) == [Blank EXCEPT !.op = "get_user_orders", !.pc = "select", !.user_id = <<u>>]
AddressReq(u, addrs) ==
    [Blank EXCEPT !.op = "update_user_address", !.pc = "update", !.user_id = <<u>>,
                  !.address = addrs]

Running(q) == req[q].pc # "idle"
InFlight(op) == {q \in Procs : Running(q) /\ req[q].op = op}

Init ==
    /\ users = {}
    /\ orders = {}
    /\ autoinc = 1
    /\ clock = 0
    /\ req = [p \in Procs |-> Blank]
    /\ resp = Blank
    /\ tx = [p \in Procs |-> EmptyTx]
    /\ placed = {}
    /\ lastAddr = [u \in 1 .. MaxUsers |-> PyNone]

\* ------------------------------------------------------- store semantics
UserExists(u) == \E row \in users : row.id = u

\* Row locks held by the open transaction of q (InnoDB): an uncommitted insert
\* locks its key, the foreign-key check of an order insert share-locks the
\* parent users row, an UPDATE of a users row locks it exclusively.
PendingEmail(q, e) == \E row \in tx[q].user : row.email = e
PendingUser(q, u) == \E row \in tx[q].user : row.id = u
PendingOrder(q, id) == \E row \in tx[q].order : row.id = id
SLocked(q, u) == \E row \in tx[q].order : row.user_id = <<u>>
XLocked(q, u) == \E a \in tx[q].addr : a.id = u

\* The next statement of p has to wait for a lock another transaction holds.
Blocked(p) ==
    LET r == req[p] IN
    \E q \in Procs \ {p} :
        \/ r.op = "signup" /\ r.pc = "insert" /\ PendingEmail(q, r.email)
        \/ /\ r.op = "create_order" /\ r.pc = "insert"
           /\ \/ PendingOrder(q, r.order_id)
              \/ r.user_id # None /\ (XLocked(q, r.user_id[1]) \/ PendingUser(q, r.user_id[1]))
        \/ /\ r.pc = "update"
           /\ \/ SLocked(q, r.user_id[1])
              \/ XLocked(q, r.user_id[1])
              \/ PendingUser(q, r.user_id[1])

\* conn.commit(): the buffered writes of a transaction reach the tables.
CommitUsers(us, t) ==
    { IF \E a \in t.addr : a.id = row.id
      THEN [row EXCEPT !.address = (CHOOSE a \in t.addr : a.id = row.id).text]
      ELSE row : row \in us } \cup t.user

\* Mutant of CommitOrders: the new address is also copied onto the earlier
\* orders of the same user.
CommitOrdersSyncAddress(os, t) ==
    { IF \E a \in t.addr : <<a.id>> = row.user_id
      THEN [row EXCEPT !.address = (CHOOSE a \in t.addr : <<a.id>> = row.user_id).text]
      ELSE row : row \in os } \cup t.order

CommitOrders(os, t) == os \cup t.order

\* ----------------------------------------------------------- error paths
\* signup maps ER_DUP_ENTRY to 400 and every other driver error to 500;
\* create_order and update_user_address map every driver error to 500; login
\* and get_user_orders catch nothing, the framework answers 500.
ErrorStatus(op, errno) == IF op = "signup" /\ errno = "dup" THEN 400 ELSE 500

\* Whether conn.close() runs when a statement of the handler raises: signup,
\* create_order and update_user_address close in a finally block.
ClosesOnError(op) == op \in {"signup", "create_order", "update_user_address"}

\* conn.close() on a connection with uncommitted writes: the server rolls the
\* transaction back, the tables keep their committed rows.
RolledBackUsers(us, t) == us

\* Mutant of RolledBackOrders: an autocommit connection, the inserted row stays.
RolledBackOrdersKept(os, t) == os \cup t.order

RolledBackOrders(os, t) == os

\* The handler of p leaves through an exception raised at its current step.
\* No path of any handler commits after an exception.
Raise(p, errno) ==
    LET r == req[p]
        closed == ClosesOnError(r.op) IN
    /\ resp' = [r EXCEPT !.pc = "done", !.err = r.pc, !.errno = errno,
                         !.status = ErrorStatus(r.op, errno), !.conn = r.conn /\ ~closed]
    /\ req' = [req EXCEPT ![p] = Blank]
    /\ users' = RolledBackUsers(users, tx[p])
    /\ orders' = RolledBackOrders(orders, tx[p])
    /\ tx' = [tx EXCEPT ![p] = EmptyTx]

\* The handler of p returns normally with response fields `out`.
Return(p, out) ==
    /\ resp' = [out EXCEPT !.pc = "done", !.conn = FALSE]
    /\ req' = [req EXCEPT ![p] = Blank]
    /\ tx' = [tx EXCEPT ![p] = EmptyTx]

\* ---------------------------------------------------------------- actions
Tick ==
    /\ clock < MaxClock
    /\ clock' = clock + 1
    /\ resp' = Blank
    /\ UNCHANGED <<users, orders, autoinc, req, tx, placed, lastAddr>>

\* A request arrives on a free slot and get_db_connection() succeeds.  Slots
\* are interchangeable: a request takes the lowest free one.
FreeSlot(p) == ~Running(p) /\ \A q \in Procs : q < p => Running(q)

\* The AUTO_INCREMENT values are bounded: a signup is taken only while one is left.
Admissible(r) ==
    r.op = "signup" => autoinc + Cardinality(InFlight("signup")) <= MaxUsers

Start(p, r) ==
    /\ FreeSlot(p)
    /\ Admissible(r)
    /\ req' = [req EXCEPT ![p] = [r EXCEPT !.conn = TRUE]]
    /\ resp' = Blank
    /\ UNCHANGED <<users, orders, autoinc, clock, tx, placed, lastAddr>>

StartSignup(p) == \E e \in Emails : Start(p, SignupReq(e, "p"))
StartLogin(p) == \E e \in Emails, pw \in Passwords : Start(p, LoginReq(e, pw))
StartCreateOrder(p) ==
    \E uid \in {None} \cup {<<u>> : u \in UserIdInputs}, b \in OrderBodies :
        Start(p, OrderReq(uid, b, clock))
StartGetUserOrders(p) == \E u \in UserIdInputs : Start(p, OrdersReq(u))
StartUpdateAddress(p) == \E u \in UserIdInputs, a \in AddressLists : Start(p, AddressReq(u, a))

\* A request for one of the handlers `ops` arrives and get_db_connection()
\* raises: no handler catches it, no connection exists.
ConnectError(p, ops) ==
    /\ FreeSlot(p)
    /\ \E op \in ops :
          resp' = [Blank EXCEPT !.op = op, !.pc = "done", !.err = "connect",
                                !.errno = "fault", !.status = 500]
    /\ UNCHANGED <<users, orders, autoinc, clock, req, tx, placed, lastAddr>>

\* The statement p is about to run raises a driver error (connection lost,
\* server gone, table missing).
StoreError(p) ==
    /\ Running(p)
    /\ Raise(p, "fault")
    /\ UNCHANGED <<autoinc, clock, placed, lastAddr>>

\* The statement p waits on a lock and the store gives up on it (lock wait
\* timeout, or p chosen as the victim of a deadlock).
LockWaitError(p) ==
    /\ Running(p)
    /\ Blocked(p)
    /\ Raise(p, "lock")
    /\ UNCHANGED <<autoinc, clock, placed, lastAddr>>

\* ------------------------------------------------------------------ signup
\* INSERT INTO users (name, email, password): id from AUTO_INCREMENT, address NULL.
NewUserRow(r, id) ==
    [id |-> id, name |-> UserName, email |-> r.email, password |-> r.password,
     address |-> NULL]

\* Mutant of EmailTaken: a users table without the UNIQUE index.
EmailNeverTaken(e) == FALSE

\* The UNIQUE index on users.email rejects the insert (ER_DUP_ENTRY).
EmailTaken(e) == \E row \in users : row.email = e

SignupInsert(p) ==
    LET r == req[p] IN
    /\ r.op = "signup" /\ r.pc = "insert"
    /\ ~Blocked(p)
    /\ IF EmailTaken(r.email)
       THEN Raise(p, "dup") /\ autoinc' = autoinc
       ELSE /\ tx' = [tx EXCEPT ![p].user = {NewUserRow(r, autoinc)}]
            /\ req' = [req EXCEPT ![p].pc = "commit"]
            /\ resp' = Blank
            /\ autoinc' = autoinc + 1
            /\ UNCHANGED <<users, orders>>
    /\ UNCHANGED <<clock, placed, lastAddr>>

\* conn.commit(); user_id = cursor.lastrowid; return; finally conn.close().
SignupCommit(p) ==
    LET r == req[p] IN
    /\ r.op = "signup" /\ r.pc = "commit"
    /\ users' = CommitUsers(users, tx[p])
    /\ Return(p, [r EXCEPT !.status = 200,
                           !.ruser = <<(CHOOSE row \in tx[p].user : TRUE).id>>])
    /\ UNCHANGED <<orders, autoinc, clock, placed, lastAddr>>

\* ------------------------------------------------------------------- login
\* address_data = json.loads(row['address']) if row['address'] else None
LoadAddress(text) == IF TextTruthy(text) THEN json_loads(text) ELSE PyNone

\* SELECT ... WHERE email = %s; fetchone(); conn.close(); compare passwords.
LoginSelect(p) ==
    LET r == req[p]
        rows == {row \in users : row.email = r.email} IN
    /\ r.op = "login" /\ r.pc = "select"
    /\ IF rows # {} /\ (CHOOSE row \in rows : TRUE).password = r.password
       THEN LET row == CHOOSE row \in rows : TRUE IN
            Return(p, [r EXCEPT !.status = 200, !.ruser = <<row.id>>,
                                !.raddr = LoadAddress(row.address)])
       ELSE Return(p, [r EXCEPT !.status = 401])
    /\ UNCHANGED <<users, orders, autoinc, clock, placed, lastAddr>>

\* ------------------------------------------------------------ create_order
\* The row of INSERT INTO orders (id, user_id, total, status, items, address);
\* created_at defaults to CURRENT_TIMESTAMP.
NewOrderRow(r, now) ==
    [id |-> r.order_id, user_id |-> r.user_id, total |-> ToDecimal2(r.total),
     status |-> Delivered, items |-> json_dumps(r.items),
     address |-> json_dumps(r.address), created_at |-> now]

\* Mutant of OrderIdTaken: an orders table without the primary key.
OrderIdNeverTaken(id) == FALSE

\* PRIMARY KEY of orders.id rejects the insert.
OrderIdTaken(id) == \E row \in orders : row.id = id

\* Mutants of ForeignKeyFails: a table without the constraint; a user_id
\* column that is NOT NULL.
ForeignKeyUnenforced(uid) == FALSE
ForeignKeyRequiresOwner(uid) == uid = None \/ ~UserExists(uid[1])

\* FOREIGN KEY(user_id) REFERENCES users(id) rejects the insert.
ForeignKeyFails(uid) == uid # None /\ ~UserExists(uid[1])

\* Mutant of AddressWrite: the address is written only while none is stored
\* (... WHERE id = %s AND address IS NULL).
AddressWriteIfUnset(r) ==
    IF \E row \in users : row.id = r.user_id[1] /\ row.address = NULL
    THEN {[id |-> r.user_id[1], text |-> json_dumps(r.address)]}
    ELSE {}

\* UPDATE users SET address = %s WHERE id = %s: the write it buffers (none
\* when no row matches).
AddressWrite(r) ==
    IF UserExists(r.user_id[1])
    THEN {[id |-> r.user_id[1], text |-> json_dumps(r.address)]}
    ELSE {}

OrderInsert(p) ==
    LET r == req[p] IN
    /\ r.op = "create_order" /\ r.pc = "insert"
    /\ ~Blocked(p)
    /\ IF OrderIdTaken(r.order_id) THEN Raise(p, "dup")
       ELSE IF ForeignKeyFails(r.user_id) THEN Raise(p, "fk")
       ELSE /\ tx' = [tx EXCEPT ![p].order = {NewOrderRow(r, clock)}]
            /\ req' = [req EXCEPT ![p].pc = IF IdTruthy(r.user_id) THEN "update" ELSE "commit"]
            /\ resp' = Blank
            /\ UNCHANGED <<users, orders>>
    /\ UNCHANGED <<autoinc, clock, placed, lastAddr>>

\* if order.user_id: UPDATE users SET address = address_json WHERE id = user_id
OrderUpdate(p) ==
    LET r == req[p] IN
    /\ r.op = "create_order" /\ r.pc = "update"
    /\ ~Blocked(p)
    /\ tx' = [tx EXCEPT ![p].addr = AddressWrite(r)]
    /\ req' = [req EXCEPT ![p].pc = "commit"]
    /\ resp' = Blank
    /\ UNCHANGED <<users, orders, autoinc, clock, placed, lastAddr>>

\* The history of committed address writes: the request of p submitted an
\* address for a stored user and its transaction commits.
RecordAddr(p) ==
    [u \in DOMAIN lastAddr |->
        IF req[p].user_id = <<u>> /\ UserExists(u) THEN req[p].address ELSE lastAddr[u]]

\* send_order_notification: returns early when SENDER_PASSWORD is unset
\* ("skipped"); otherwise the SMTP exchange runs inside try / except Exception,
\* so a transport or auth failure ("failed") is printed and swallowed.
MailOutcomes == {"skipped", "failed", "sent"}

\* Mutant of NotificationRaises: the SMTP exchange outside the try block.
NotificationRaisesOnFailure(outcome) == outcome = "failed"

NotificationRaises(outcome) == FALSE

\* conn.commit() makes the order row and the address update durable together;
\* then send_order_notification(...); return {"id": order_id, ...}; finally
\* conn.close().  An exception out of the notification would not be a
\* mysql.connector.Error: it would pass the except clause and reach the
\* framework (500), after the commit.
OrderCommit(p) ==
    LET r == req[p] IN
    /\ r.op = "create_order" /\ r.pc = "commit"
    /\ users' = CommitUsers(users, tx[p])
    /\ orders' = CommitOrders(orders, tx[p])
    /\ placed' = placed \cup
          {[id |-> r.order_id, user_id |-> r.user_id, items |-> r.items,
            total |-> r.total, address |-> r.address,
            at |-> (CHOOSE row \in tx[p].order : TRUE).created_at]}
    /\ lastAddr' = RecordAddr(p)
    /\ \E outcome \in MailOutcomes :
          IF NotificationRaises(outcome)
          THEN Return(p, [r EXCEPT !.status = 500, !.err = "notify", !.errno = "mail",
                                   !.mail = outcome])
          ELSE Return(p, [r EXCEPT !.status = 200, !.rorder = r.order_id, !.mail = outcome])
    /\ UNCHANGED <<autoinc, clock>>

\* --------------------------------------------------------- get_user_orders
\* One element of the response list, built from a fetched row.
OrderDict(row) ==
    [id |-> row.id, total |-> DecimalToFloat(row.total), status |-> row.status,
     items |-> json_loads(row.items), address |-> json_loads(row.address),
     date |-> row.created_at]

\* Mutant of RowsOfUser: the SELECT without its WHERE clause.
RowsOfAnyUser(u) == orders

\* SELECT ... WHERE user_id = %s
RowsOfUser(u) == {row \in orders : row.user_id = <<u>>}

\* ORDER BY created_at DESC: any order of the rows with non-increasing
\* created_at (rows of the same second come in an order the store picks).
NewestFirst(rows) ==
    {s \in [1 .. Cardinality(rows) -> rows] :
        /\ \A i, j \in DOMAIN s : i # j => s[i] # s[j]
        /\ \A i, j \in DOMAIN s : i < j => s[i].created_at >= s[j].created_at}

OrdersSelect(p) ==
    LET r == req[p] IN
    /\ r.op = "get_user_orders" /\ r.pc = "select"
    /\ \E s \in NewestFirst(RowsOfUser(r.user_id[1])) :
          Return(p, [r EXCEPT !.status = 200,
                              !.rorders = [i \in DOMAIN s |-> OrderDict(s[i])]])
    /\ UNCHANGED <<users, orders, autoinc, clock, placed, lastAddr>>

\* ----------------------------------------------------- update_user_address
\* UPDATE users SET address = json.dumps(data.addresses) WHERE id = user_id
AddrUpdate(p) ==
    LET r == req[p] IN
    /\ r.op = "update_user_address" /\ r.pc = "update"
    /\ ~Blocked(p)
    /\ tx' = [tx EXCEPT ![p].addr = AddressWrite(r)]
    /\ req' = [req EXCEPT ![p].pc = "commit"]
    /\ resp' = Blank
    /\ UNCHANGED <<users, orders, autoinc, clock, placed, lastAddr>>

\* conn.commit(); return {"message": ...}; finally conn.close().
AddrCommit(p) ==
    LET r == req[p] IN
    /\ r.op = "update_user_address" /\ r.pc = "commit"
    /\ users' = CommitUsers(users, tx[p])
    /\ lastAddr' = RecordAddr(p)
    /\ Return(p, [r EXCEPT !.status = 200])
    /\ UNCHANGED <<orders, autoinc, clock, placed>>

\* ------------------------------------------------------------ specification
Handlers == {"signup", "login", "create_order", "get_user_orders", "update_user_address"}

\* The server as uvicorn.run(app) starts it: one event loop, and every handler
\* is a coroutine that never awaits, so requests are handled one at a time.
Next ==
    \/ Tick
    \/ StartSignup(1) \/ StartLogin(1) \/ StartCreateOrder(1)
    \/ StartGetUserOrders(1) \/ StartUpdateAddress(1)
    \/ ConnectError(1, Handlers) \/ StoreError(1)
    \/ SignupInsert(1) \/ SignupCommit(1)
    \/ LoginSelect(1)
    \/ OrderInsert(1) \/ OrderUpdate(1) \/ OrderCommit(1)
    \/ OrdersSelect(1)
    \/ AddrUpdate(1) \/ AddrCommit(1)

Spec == Init /\ [][Next]_vars

\* Several workers over the same store: the statements of the handlers that
\* insert rows (signup, create_order) interleave between requests.
NextConc ==
    \/ Tick
    \/ \E p \in Procs :
          \/ StartSignup(p) \/ StartCreateOrder(p)
          \/ StoreError(p) \/ LockWaitError(p)
          \/ SignupInsert(p) \/ SignupCommit(p)
          \/ OrderInsert(p) \/ OrderUpdate(p) \/ OrderCommit(p)

SpecConc == Init /\ [][NextConc]_vars

\* ------------------------------------------------------------------ claims
Finished(op) == resp.pc = "done" /\ resp.op = op

\* The order row a finished create_order request stands for.
StoredRowOf(r) == {row \in orders : row.id = r.order_id}

\* C9: every handler releases the connection it acquired on every exit path:
\* whenever a handler has finished, with a response or with an error, the
\* connection it opened is closed.
C9_ConnectionReleased == resp.pc = "done" => ~resp.conn

\* C8: a committed order row is never changed or removed by any later step of
\* any handler, and every stored order has the status written at creation.
C8_OrdersImmutable ==
    /\ [][\A row \in orders : row \in orders']_vars
    /\ [](\A row \in orders : row.status = Delivered)

\* An order is in the store while another handler that writes (an address
\* update for the order's owner) completes.
C8_Witness ==
    /\ Finished("update_user_address") /\ resp.status = 200
    /\ \E row \in orders : row.user_id = resp.user_id

\* C4: every stored order with a non-null user_id references a stored user; a
\* create_order naming a user id that matches no stored user answers 500 and
\* stores no order row; no step removes a user.
C4_ForeignKey ==
    /\ [](\A row \in orders : row.user_id # None => UserExists(row.user_id[1]))
    /\ [][resp'.pc = "done" /\ resp'.op = "create_order"
            /\ resp'.user_id # None /\ ~UserExists(resp'.user_id[1])
          => resp'.status = 500 /\ orders' = orders]_vars
    /\ [][\A u \in users : \E v \in users' : v.id = u.id]_vars

\* A create_order for a user id that is not stored has been answered.
C4_Witness ==
    /\ Finished("create_order") /\ resp.errno = "fk"
    /\ \E row \in orders : row.user_id # None

\* C5: a guest order (user_id null) is never rejected for having no owner: it
\* fails only when the store raises a driver error or the id is taken, and
\* otherwise succeeds with a stored row whose owner is null; no step of a guest
\* order changes any user row.
C5_GuestOrder ==
    /\ [](Finished("create_order") /\ resp.user_id = None /\ resp.err # "connect" =>
            /\ resp.errno \in {"none", "dup", "fault", "lock"}
            /\ resp.errno = "none" =>
                  /\ resp.status = 200
                  /\ \E row \in orders : row.id = resp.order_id /\ row.user_id = None)
    /\ [][\A p \in Procs :
            req[p].op = "create_order" /\ req[p].user_id = None /\ req'[p] # req[p]
            => users' = users]_vars

\* A guest order has succeeded while a user with a stored address exists.
C5_Witness ==
    /\ Finished("create_order") /\ resp.user_id = None /\ resp.status = 200
    /\ \E u \in users : u.address # NULL

\* The store writes of a finished create_order all succeeded.
StoreWritesSucceeded(r) == r.err \notin {"connect", "insert", "update", "commit"}

\* C2: when the store writes of an order placement succeed, the response is
\* success with the generated order id, the stored order row holds the request
\* and the owner's address is the order's address, whatever the notification
\* did (skipped, failed or sent).
C2_NotificationIndependent ==
    Finished("create_order") /\ StoreWritesSucceeded(resp) =>
        /\ resp.status = 200
        /\ resp.rorder = resp.order_id
        /\ \E row \in orders :
              /\ row.id = resp.order_id /\ row.user_id = resp.user_id
              /\ json_loads(row.items) = resp.items
              /\ json_loads(row.address) = resp.address
        /\ IdTruthy(resp.user_id) =>
              \E u \in users : u.id = resp.user_id[1] /\ u.address = json_dumps(resp.address)

\* An order of a stored user was placed although the mail transport failed.
C2_Witness ==
    /\ Finished("create_order") /\ resp.mail = "failed" /\ resp.status = 200
    /\ IdTruthy(resp.user_id)

C3_UniqueEmail ==
    /\ [](\A u, v \in users : u.email = v.email => u = v)
    /\ [](Finished("signup") /\ resp.status \in {200, 400} =>
            Cardinality({u \in users : u.email = resp.email}) = 1)
    /\ [](Finished("signup") /\ resp.status = 200 =>
            \E u \in users : u.email = resp.email /\ <<u.id>> = resp.ruser)
    /\ [](Finished("signup") /\ resp.errno = "dup" => resp.status = 400)
    /\ [][resp'.pc = "done" /\ resp'.op = "signup"
            /\ (\E u \in users : u.email = resp'.email)
          => resp'.status \in {400, 500} /\ users' = users]_vars

\* A signup was refused as a duplicate while another request was running.
C3_Witness ==
    /\ Finished("signup") /\ resp.status = 400
    /\ \E q \in Procs : Running(q)

\* C10: stored order ids are unique and at most one order commits per id; a
\* create_order that finishes while its id is already stored answers 500 and
\* leaves orders and users unchanged.
C10_UniqueOrderId ==
    /\ [](\A r1, r2 \in orders : r1.id = r2.id => r1 = r2)
    /\ [](\A x, y \in placed : x.id = y.id => x = y)
    /\ [](Finished("create_order") /\ resp.errno = "dup" => resp.status = 500)
    /\ [][resp'.pc = "done" /\ resp'.op = "create_order" /\ resp'.err # "connect"
            /\ (\E row \in orders : row.id = resp'.order_id)
          => resp'.status = 500 /\ orders' = orders /\ users' = users]_vars

\* An order of a stored user collided with a stored id and was refused.
C10_Witness ==
    /\ Finished("create_order") /\ resp.errno = "dup"
    /\ IdTruthy(resp.user_id) /\ UserExists(resp.user_id[1])

\* C6: a successful login returns the address value of the most recently
\* committed address write for that user (by create_order or by
\* update_user_address), and None when no write was committed.
C6_LastWriteWins ==
    Finished("login") /\ resp.status = 200 => resp.raddr = lastAddr[resp.ruser[1]]

\* A login returned the list written by update_user_address for a user who
\* had placed an order before.
C6_Witness ==
    /\ Finished("login") /\ resp.status = 200 /\ resp.raddr.t = "list"
    /\ \E x \in placed : x.user_id = resp.ruser

\* The orders placed for user u, and the response element each stands for.
PlacedBy(u) == {x \in placed : x.user_id = <<u>>}
AsSubmitted(x) ==
    [id |-> x.id, total |-> x.total, status |-> Delivered, items |-> x.items,
     address |-> x.address, date |-> x.at]
RoundedToCents(t) == 10 * ((t + 5) \div 10)
AsStored(x) == [AsSubmitted(x) EXCEPT !.total = RoundedToCents(x.total)]
Listed(r) == {r.rorders[i] : i \in DOMAIN r.rorders}
ListedNewestFirst(r) ==
    \A i, j \in DOMAIN r.rorders : i < j => r.rorders[i].date >= r.rorders[j].date

\* C7 as stated: get_user_orders(u) returns exactly the orders placed for u,
\* each with the fixed status and items, total and address as submitted,
\* newest first.
C7_Original ==
    Finished("get_user_orders") /\ resp.status = 200 =>
        /\ Listed(resp) = {AsSubmitted(x) : x \in PlacedBy(resp.user_id[1])}
        /\ Len(resp.rorders) = Cardinality(PlacedBy(resp.user_id[1]))
        /\ ListedNewestFirst(resp)

\* C7 amended: the same, with the total rounded to two decimal places.
C7_Amended ==
    Finished("get_user_orders") /\ resp.status = 200 =>
        /\ Listed(resp) = {AsStored(x) : x \in PlacedBy(resp.user_id[1])}
        /\ Len(resp.rorders) = Cardinality(PlacedBy(resp.user_id[1]))
        /\ ListedNewestFirst(resp)

\* Two orders of one user were listed, the newer first, one with a rounded total.
C7_Witness ==
    /\ Finished("get_user_orders") /\ Len(resp.rorders) = 2
    /\ resp.rorders[1].date > resp.rorders[2].date
    /\ \E i \in DOMAIN resp.rorders : resp.rorders[i].total = 130

====
